---- MODULE Spec2Model ----
(***************************************************************************)
(* Model of ExcelAutomationPipeline (datapipeline.py): the configuration-  *)
(* driven extract -> transform -> render -> upload run of run_pipeline,    *)
(* and the pure function transform_data.                                   *)
(*                                                                         *)
(* Python values are modelled structurally: a dict is a function with a    *)
(* string domain (<<>> is the empty dict), a list is a sequence, a data    *)
(* frame is the sequence of its columns, each a label and its cells.       *)
(***************************************************************************)
EXTENDS Integers, Sequences, FiniteSets, TLC

\* ------------------------------------------------------------- bounds ----
MaxSources == 2      \* longest config['sources'] list explored
MaxCols == 2         \* widest data frame given to transform_data on its own
MaxApply == 2        \* how often transform_data is re-applied to its result

\* ------------------------------------------------------ python values ----
None == [isNone |-> TRUE]
Some(v) == [isNone |-> FALSE, val |-> v]

\* dict.get(key) for a dict modelled as a function
Get(d, k) == IF k \in DOMAIN d THEN Some(d[k]) ELSE None

\* truth value of an optional dict or list (None, {} and [] are falsy)
Truthy(o) == ~o.isNone /\ DOMAIN o.val # {}

\* d[k] = v
With(d, k, v) == [x \in DOMAIN d \cup {k} |-> IF x = k THEN v ELSE d[x]]

Range(s) == {s[i] : i \in DOMAIN s}

\* ------------------------------------------------------- data frames ----
Str(s) == [kind |-> "str", v |-> s]
Datetime(s) == [kind |-> "datetime", v |-> s]

DateTexts == {"2024-01-02", "2024-03-04"}
CellColumns == { <<Str("2024-01-02"), Str("2024-03-04")>>,
                 <<Str("2024-01-02"), Str("not a date")>> }
ColNames == {"x", "y", "z"}

Column(n, cs) == [name |-> n, cells |-> cs]
Labels(df) == [i \in DOMAIN df |-> df[i].name]

\* data frames as a reader produces them: distinct labels, equal row counts
DataFramesOver(names, width) ==
  UNION { { df \in [1..n -> {Column(c, cs) : c \in names, cs \in CellColumns}] :
              \A i, j \in 1..n : df[i].name = df[j].name => i = j }
          : n \in 0..width }

\* ---------------------------------------------------- transform_data ----
\* df.rename(columns=m): every label that is a key of m is replaced, the
\* others and all positions are kept; all labels are mapped at once.
Rename(df, m) ==
  [i \in DOMAIN df |->
     Column(IF df[i].name \in DOMAIN m THEN m[df[i].name] ELSE df[i].name,
            df[i].cells)]

\* pd.to_datetime on one cell, errors='raise' (the default)
Parseable(c) == c.kind = "datetime" \/ c.v \in DateTexts
ToDatetimeCell(c) == IF c.kind = "datetime" THEN c ELSE Datetime(c.v)

Positions(df, col) == {i \in DOMAIN df : df[i].name = col}

\* mutant of DateColumnOk: to_datetime that accepts any cell (errors are not
\* raised), so a column with unparseable text passes
DateColumnOkLenient(df, col) == Cardinality(Positions(df, col)) = 1

\* df[col] = pd.to_datetime(df[col]): KeyError when no column is labelled
\* col, ValueError when several are (df[col] is then a frame without
\* year/month/day columns) or when a cell does not parse.
DateColumnOk(df, col) ==
  /\ Cardinality(Positions(df, col)) = 1
  /\ \A i \in Positions(df, col) : \A k \in DOMAIN df[i].cells : Parseable(df[i].cells[k])

ToDatetime(df, col) ==
  [i \in DOMAIN df |->
     IF df[i].name = col
       THEN Column(col, [k \in DOMAIN df[i].cells |-> ToDatetimeCell(df[i].cells[k])])
       ELSE df[i]]

RECURSIVE ParseDates(_, _, _)
ParseDates(df, cols, k) ==
  IF k > Len(cols) THEN [ok |-> TRUE, df |-> df]
  ELSE IF ~DateColumnOk(df, cols[k]) THEN [ok |-> FALSE, df |-> df]
  ELSE ParseDates(ToDatetime(df, cols[k]), cols, k + 1)

\* mutant of TransformData: rename with errors='raise', which rejects a map
\* key that is no column of the frame
TransformDataStrictRename(df, transformations) ==
  LET rn == Get(transformations, "rename_columns")
      dc == Get(transformations, "date_columns")
      renamed == IF Truthy(rn) THEN Rename(df, rn.val) ELSE df
  IN  IF Truthy(rn) /\ ~(DOMAIN rn.val \subseteq Range(Labels(df))) THEN [ok |-> FALSE, df |-> df]
      ELSE IF Truthy(dc) THEN ParseDates(renamed, dc.val, 1)
      ELSE [ok |-> TRUE, df |-> renamed]

\* transform_data(df, transformations): [ok, df]; ok = FALSE when it raises
TransformData(df, transformations) ==
  LET rn == Get(transformations, "rename_columns")
      dc == Get(transformations, "date_columns")
      renamed == IF Truthy(rn) THEN Rename(df, rn.val) ELSE df
  IN  IF Truthy(dc) THEN ParseDates(renamed, dc.val, 1)
      ELSE [ok |-> TRUE, df |-> renamed]

\* ------------------------------------------------------ configuration ----
Names == {"sales", "users"}
Files == {"data.csv", "data.json", "data.txt"}

RenameXY == [c \in {"x"} |-> "y"]
\* the 'transformations' values configurations carry
Transformations == { [rename_columns |-> RenameXY, date_columns |-> <<"y">>],
                     [date_columns |-> <<"y">>] }

ApiSource(n) == [name |-> n, type |-> "api", url |-> "https://api.example/v1", data_key |-> "items"]
GcsSource(n, f) == [name |-> n, type |-> "gcs", bucket |-> "landing", file |-> f]
OtherSource(n) == [name |-> n, type |-> "bigquery"]

BareSources ==
  {ApiSource(n) : n \in Names} \cup {GcsSource(n, f) : n \in Names, f \in Files}
    \cup {OtherSource(n) : n \in Names}

\* 'transformations' is an optional key of a source
Sources == BareSources \cup {With(s, "transformations", tr) : s \in BareSources, tr \in Transformations}

Outputs == { [base_name |-> "report"],
             [base_name |-> "report", gcs_upload |-> [bucket |-> "out", path |-> "reports"]] }

Configs == { [sources |-> ss, output |-> o] :
               ss \in UNION {[1..n -> Sources] : n \in 0..MaxSources}, o \in Outputs }

\* ------------------------------------------------------- environment ----
\* what the services answer: tables as the readers decode them
SourceTables == {df \in DataFramesOver({"x"}, 1) : df # <<>>}

\* requests.get + raise_for_status: a RequestException, or a JSON body
ApiResponses ==
  { [ok |-> FALSE] } \cup
  { [ok |-> TRUE, json |-> b] :
      b \in {<<>>, [error |-> "quota"]} \cup {[items |-> tb] : tb \in SourceTables} }

\* blob.download_as_text: raises (missing object, no access), or text that
\* decodes to a table
GcsObjects == { [found |-> FALSE] } \cup { [found |-> TRUE, table |-> tb] : tb \in SourceTables }

IoOutcomes == {"ok", "denied"}

\* readings of datetime.now()
Clocks == << [year |-> 2024, month |-> 1, day |-> 2, hour |-> 3, minute |-> 4, second |-> 5],
             [year |-> 2024, month |-> 11, day |-> 12, hour |-> 13, minute |-> 14, second |-> 15] >>

\* ----------------------------------------------------- pure helpers ----
\* str.endswith
EndsWith(s, suffix) ==
  Len(s) >= Len(suffix) /\ SubSeq(s, Len(s) - Len(suffix) + 1, Len(s)) = suffix

Digit(d) == <<"0", "1", "2", "3", "4", "5", "6", "7", "8", "9">>[d + 1]

RECURSIVE Pad(_, _)
\* n in decimal, zero-padded to width digits
Pad(n, width) == IF width = 0 THEN "" ELSE Pad(n \div 10, width - 1) \o Digit(n % 10)

\* strftime("%Y%m%d_%H%M%S")
Strftime(dt) ==
  Pad(dt.year, 4) \o Pad(dt.month, 2) \o Pad(dt.day, 2) \o "_"
    \o Pad(dt.hour, 2) \o Pad(dt.minute, 2) \o Pad(dt.second, 2)

\* f"{config['output']['base_name']}_{timestamp}.xlsx"
OutputFilename(base_name, ts) == base_name \o "_" \o ts \o ".xlsx"

\* f"{config['output']['gcs_upload']['path']}/{output_filename}"
DestinationBlobName(path, filename) == path \o "/" \o filename

\* config['output'].get('gcs_upload') as a condition
UploadConfigured(output) == Truthy(Get(output, "gcs_upload"))

\* fetch_data_from_api: the JSON body, or None after a RequestException
FetchDataFromApi(resp) == IF resp.ok THEN Some(resp.json) ELSE None

\* read_from_gcs: [raised, df]; the download is attempted for .csv and .json
\* only, any other extension returns None without touching the object
ReadFromGcs(file_name, obj) ==
  IF EndsWith(file_name, ".csv") \/ EndsWith(file_name, ".json")
    THEN IF obj.found THEN [raised |-> FALSE, df |-> Some(obj.table)]
         ELSE [raised |-> TRUE, df |-> None]
    ELSE [raised |-> FALSE, df |-> None]

\* a dict in insertion order: a sequence of [name, df] entries
Keys(d) == {d[k].name : k \in DOMAIN d}
KeyPos(d, n) == CHOOSE k \in DOMAIN d : d[k].name = n

\* all_data[name] = df : a new key is appended, an existing key keeps its
\* place and gets the new value
DictSet(d, n, df) ==
  IF n \in Keys(d) THEN [d EXCEPT ![KeyPos(d, n)] = [name |-> n, df |-> df]]
  ELSE Append(d, [name |-> n, df |-> df])

\* next((s['transformations'] for s in sources if s['name'] == name), {}):
\* the first source of that name decides; [raised] is the KeyError of a
\* source without the key, index 0 stands for the default {}
Matching(sources, n) == {k \in DOMAIN sources : sources[k].name = n}
FirstMatch(sources, n) ==
  IF Matching(sources, n) = {} THEN 0
  ELSE CHOOSE k \in Matching(sources, n) : \A j \in Matching(sources, n) : k <= j

LookupTransformations(sources, n) ==
  LET k == FirstMatch(sources, n)
  IN  IF k = 0 THEN [raised |-> FALSE, index |-> 0, val |-> <<>>]
      ELSE IF "transformations" \in DOMAIN sources[k]
        THEN [raised |-> FALSE, index |-> k, val |-> sources[k].transformations]
        ELSE [raised |-> TRUE, index |-> k, val |-> <<>>]

\* create_excel_with_sheets: [raised, book]. One sheet per entry, named
\* after the key, holding the frame without an index column. The openpyxl
\* writer drops its default sheet and refuses to save a workbook without a
\* visible sheet, so an empty dict raises on leaving the with block.
CreateExcelWithSheets(data_dict, output_path, io) ==
  IF io # "ok" \/ data_dict = <<>> THEN [raised |-> TRUE, book |-> None]
  ELSE [raised |-> FALSE,
        book |-> Some([path |-> output_path,
                       sheets |-> [k \in DOMAIN data_dict |->
                                     [sheet_name |-> data_dict[k].name, df |-> data_dict[k].df]]])]

\* -------------------------------------------------------------- state ----
VARIABLES
  config,           \* the config argument of run_pipeline
  pc,               \* position in run_pipeline: extract, transform, render,
                    \* publish, done (returned), raised (left by an exception)
  i,                \* extract loop: index of the next source
  t,                \* transform loop: index of the next entry of all_data
  all_data,         \* the dict all_data, in insertion order
  timestamp,        \* local timestamp ("" until set)
  output_filename,  \* local output_filename ("" until set)
  clock,            \* the wall clock: index of its current reading in Clocks
  book,             \* the spreadsheet file on disk: None, or its path and sheets
  uploads,          \* calls of upload_to_gcs: file, bucket, blob, and whether it completed
  result,           \* the value run_pipeline returned
  error,            \* the exception that left run_pipeline ("" for none)
  status,           \* per source: pending, ok (a frame was stored), failed (the
                    \* request, the download or the extension), nodata (an empty
                    \* body), keyerror (a body without data_key), skipped (type)
  raw,              \* per source: the frame its reader produced
  prov,             \* per entry of all_data: the source that was read for it and
                    \* the source whose transformations were applied (0: not yet)
  nowCalls,         \* number of datetime.now() calls
  tin, tspec, tdf, tn, traised  \* transform_data on its own: input frame,
                    \* transformations, current frame, number of applications
                    \* that returned, and whether one raised

pipelineVars == <<config, pc, i, t, all_data, timestamp, output_filename, clock, book,
                  uploads, result, error, status, raw, prov, nowCalls>>
transformVars == <<tin, tspec, tdf, tn, traised>>
vars == <<pipelineVars, transformVars>>

\* where run_pipeline stands once the extract loop has handled source k - 1
AfterExtract(sources, k, data) ==
  IF k <= Len(sources) THEN "extract"
  ELSE IF data # <<>> THEN "transform" ELSE "render"

\* mutant of AfterTransform: the transform loop is left after its first entry
AfterTransformBreak(data, k) == "render"

\* where run_pipeline stands once the transform loop has handled entry k - 1
AfterTransform(data, k) == IF k <= Len(data) THEN "transform" ELSE "render"

\* the locals of run_pipeline and the world around it before the first step
Fresh ==
  /\ i = 1
  /\ t = 1
  /\ all_data = <<>>
  /\ timestamp = ""
  /\ output_filename = ""
  /\ clock = 1
  /\ book = None
  /\ uploads = <<>>
  /\ result = None
  /\ error = ""
  /\ status = [k \in DOMAIN config.sources |-> "pending"]
  /\ raw = [k \in DOMAIN config.sources |-> None]
  /\ prov = <<>>
  /\ nowCalls = 0

Init ==
  /\ config \in Configs
  /\ pc = AfterExtract(config.sources, 1, <<>>)
  /\ Fresh
  /\ tin = <<>> /\ tspec = <<>> /\ tdf = <<>> /\ tn = 0 /\ traised = FALSE

Raise(e) ==
  /\ pc' = "raised"
  /\ error' = e

\* the entry of source k is stored under its name
Store(k, df) ==
  LET n == config.sources[k].name
  IN  /\ all_data' = DictSet(all_data, n, df)
      /\ prov' = IF n \in Keys(all_data)
                   THEN [prov EXCEPT ![KeyPos(all_data, n)] = [read |-> k, spec |-> 0]]
                   ELSE Append(prov, [read |-> k, spec |-> 0])
      /\ status' = [status EXCEPT ![k] = "ok"]
      /\ raw' = [raw EXCEPT ![k] = Some(df)]

Skip(k, why) ==
  /\ status' = [status EXCEPT ![k] = why]
  /\ UNCHANGED <<all_data, prov, raw>>

Advance ==
  /\ i' = i + 1
  /\ pc' = AfterExtract(config.sources, i + 1, all_data')
  /\ UNCHANGED error

\* one iteration of the extract loop, source['type'] == 'api'
ExtractApi ==
  /\ pc = "extract"
  /\ config.sources[i].type = "api"
  /\ \E resp \in ApiResponses :
       LET source == config.sources[i]
           data == FetchDataFromApi(resp)
       IN  IF Truthy(data)
             THEN IF source.data_key \in DOMAIN data.val
                    THEN Store(i, data.val[source.data_key]) /\ Advance
                    ELSE Skip(i, "keyerror") /\ Raise("KeyError: data_key") /\ UNCHANGED i
             ELSE Skip(i, IF data.isNone THEN "failed" ELSE "nodata") /\ Advance
  /\ UNCHANGED <<config, t, timestamp, output_filename, clock, book, uploads, result,
                 nowCalls, transformVars>>

\* one iteration of the extract loop, source['type'] == 'gcs'
ExtractGcs ==
  /\ pc = "extract"
  /\ config.sources[i].type = "gcs"
  /\ \E obj \in GcsObjects :
       LET source == config.sources[i]
           r == ReadFromGcs(source.file, obj)
       IN  IF r.raised THEN Skip(i, "failed") /\ Raise("gcs download") /\ UNCHANGED i
           ELSE IF ~r.df.isNone THEN Store(i, r.df.val) /\ Advance
           ELSE Skip(i, "failed") /\ Advance
  /\ UNCHANGED <<config, t, timestamp, output_filename, clock, book, uploads, result,
                 nowCalls, transformVars>>

\* one iteration of the extract loop, any other source['type']: nothing is read
ExtractOther ==
  /\ pc = "extract"
  /\ config.sources[i].type \notin {"api", "gcs"}
  /\ Skip(i, "skipped") /\ Advance
  /\ UNCHANGED <<config, t, timestamp, output_filename, clock, book, uploads, result,
                 nowCalls, transformVars>>

\* one iteration of the transform loop
Transform ==
  /\ pc = "transform"
  /\ LET entry == all_data[t]
         look == LookupTransformations(config.sources, entry.name)
         r == TransformData(entry.df, look.val)
     IN  IF look.raised THEN Raise("KeyError: transformations") /\ UNCHANGED <<all_data, prov, t>>
         ELSE IF ~r.ok THEN Raise("transform_data") /\ UNCHANGED <<all_data, prov, t>>
         ELSE /\ all_data' = DictSet(all_data, entry.name, r.df)
              /\ prov' = [prov EXCEPT ![t].spec = IF look.index = 0 THEN -1 ELSE look.index]
              /\ t' = t + 1
              /\ pc' = AfterTransform(all_data', t + 1)
              /\ UNCHANGED error
  /\ UNCHANGED <<config, i, timestamp, output_filename, clock, book, uploads, result,
                 status, raw, nowCalls, transformVars>>

\* step 3: the file name from one clock reading, then the spreadsheet
Render ==
  /\ pc = "render"
  /\ nowCalls' = nowCalls + 1
  /\ timestamp' = Strftime(Clocks[clock])
  /\ output_filename' = OutputFilename(config.output.base_name, timestamp')
  /\ \E io \in IoOutcomes :
       LET r == CreateExcelWithSheets(all_data, output_filename', io)
       IN  IF r.raised THEN Raise("create_excel_with_sheets") /\ UNCHANGED book
           ELSE book' = r.book /\ pc' = "publish" /\ UNCHANGED error
  /\ UNCHANGED <<config, i, t, all_data, clock, uploads, result, status, raw, prov,
                 transformVars>>

\* step 4 and the return, for an upload target (None: no upload) and the
\* local file to upload
PublishTo(target, file) ==
  /\ pc = "publish"
  /\ IF ~target.isNone
       THEN \E io \in IoOutcomes :
              /\ uploads' = Append(uploads,
                   [file_path |-> file,
                    bucket |-> target.val.bucket,
                    blob |-> DestinationBlobName(target.val.path, file),
                    completed |-> io = "ok"])
              /\ IF io = "ok" THEN pc' = "done" /\ result' = Some(output_filename) /\ UNCHANGED error
                 ELSE Raise("upload_to_gcs") /\ UNCHANGED result
       ELSE pc' = "done" /\ result' = Some(output_filename) /\ UNCHANGED <<uploads, error>>
  /\ UNCHANGED <<config, i, t, all_data, timestamp, output_filename, clock, book,
                 status, raw, prov, nowCalls, transformVars>>

\* mutant of Publish: uploads to a default target when none is configured
PublishDefaultTarget ==
  PublishTo(IF UploadConfigured(config.output) THEN Some(config.output.gcs_upload)
            ELSE Some([bucket |-> "out", path |-> "reports"]),
            output_filename)

\* mutant of Publish: the file name is formatted again from the clock
PublishRereadsClock ==
  PublishTo(IF UploadConfigured(config.output) THEN Some(config.output.gcs_upload) ELSE None,
            OutputFilename(config.output.base_name, Strftime(Clocks[clock])))

Publish ==
  PublishTo(IF UploadConfigured(config.output) THEN Some(config.output.gcs_upload) ELSE None,
            output_filename)

\* the wall clock moves on; only readings from step 3 onwards can be observed
Tick ==
  /\ pc \in {"render", "publish"}
  /\ clock < Len(Clocks)
  /\ clock' = clock + 1
  /\ UNCHANGED <<config, pc, i, t, all_data, timestamp, output_filename, book, uploads,
                 result, error, status, raw, prov, nowCalls, transformVars>>

Next == ExtractApi \/ ExtractGcs \/ ExtractOther \/ Transform \/ Render \/ Publish \/ Tick

Spec == Init /\ [][Next]_vars

\* ------------------------------------------- transform_data on its own ----
NewNames == ColNames \cup {"w"}
RenameMaps == UNION {[D -> NewNames] : D \in SUBSET ColNames}
DateLists == {<<>>, <<"x">>, <<"w">>, <<"x", "y">>}

\* every transformations dict over these rename maps and date lists, each key
\* present or not
TransformSpecs ==
  LET withRename == {<<>>} \cup {[rename_columns |-> m] : m \in RenameMaps}
  IN  withRename \cup {With(tr, "date_columns", dl) : tr \in withRename, dl \in DateLists}

InitT ==
  /\ config = [sources |-> <<>>, output |-> [base_name |-> "report"]]
  /\ pc = "idle"
  /\ Fresh
  /\ tin \in DataFramesOver(ColNames, MaxCols)
  /\ tspec \in TransformSpecs
  /\ tdf = tin
  /\ tn = 0
  /\ traised = FALSE

\* df = transform_data(df, transformations)
ApplyTransform ==
  /\ tn < MaxApply
  /\ ~traised
  /\ LET r == TransformData(tdf, tspec)
     IN  IF r.ok THEN tdf' = r.df /\ tn' = tn + 1 /\ UNCHANGED traised
         ELSE traised' = TRUE /\ UNCHANGED <<tdf, tn>>
  /\ UNCHANGED <<tin, tspec, pipelineVars>>

NextT == ApplyTransform

SpecT == InitT /\ [][NextT]_vars

\* ------------------------------------------------------------ claims ----
SheetNames == IF book.isNone THEN {} ELSE {book.val.sheets[k].sheet_name : k \in DOMAIN book.val.sheets}
Returned == pc \in {"done", "raised"}
ExtractFinished == pc \in {"transform", "render", "publish", "done"} \/ (pc = "raised" /\ i > Len(config.sources))

\* C1: whenever a source failed extraction (request failed, download failed,
\* unsupported extension), the run still renders a spreadsheet, which has no
\* sheet for the failed source and one for every source that was extracted.
C1_FailedSourceOmittedOthersRendered ==
  (Returned /\ \E k \in DOMAIN status : status[k] = "failed") =>
     /\ ~book.isNone
     /\ \A k \in DOMAIN status :
          /\ status[k] = "failed" => config.sources[k].name \notin SheetNames
          /\ status[k] = "ok" => config.sources[k].name \in SheetNames

\* C2: an entry whose source carries no 'transformations' is transformed with
\* the empty spec: the run raises no error for it and its frame is unchanged.
C2_MissingSpecIsEmptySpec ==
  /\ error # "KeyError: transformations"
  /\ \A k \in DOMAIN all_data :
       LET m == FirstMatch(config.sources, all_data[k].name)
       IN  (m > 0 /\ "transformations" \notin DOMAIN config.sources[m] /\ prov[k].spec # 0)
             => all_data[k].df = raw[prov[k].read].val

\* C3: once extraction is over, every key of all_data is the name of exactly
\* one source whose read succeeded, and no source whose read failed has an
\* entry under its name.
C3_KeysAreSucceededSources ==
  ExtractFinished =>
    /\ \A n \in Keys(all_data) :
         Cardinality({k \in DOMAIN status : config.sources[k].name = n /\ status[k] = "ok"}) = 1
    /\ \A k \in DOMAIN status :
         status[k] = "failed" => config.sources[k].name \notin Keys(all_data)

\* C4: without a gcs_upload entry in the output descriptor, upload_to_gcs is
\* never called, in any state of the run.
C4_NoUploadWithoutTarget ==
  "gcs_upload" \notin DOMAIN config.output => uploads = <<>>

C4_Witness ==
  /\ pc = "done"
  /\ "gcs_upload" \notin DOMAIN config.output
  /\ ~book.isNone
  /\ result = Some(output_filename)

\* C5: with no sources and an output descriptor holding only base_name, the
\* run returns the computed file name, having written a spreadsheet without
\* sheets, and raises nothing.
C5_EmptyConfigRendersEmptyBook ==
  (Returned /\ config.sources = <<>> /\ DOMAIN config.output = {"base_name"}) =>
     /\ pc = "done"
     /\ error = ""
     /\ ~book.isNone /\ book.val.sheets = <<>>
     /\ result = Some(output_filename)

\* the file names of the two clock readings, written out
ExpectedNames == [r \in {1, 2} |->
                    IF r = 1 THEN "report_20240102_030405.xlsx" ELSE "report_20241112_131415.xlsx"]

\* C6: the clock is read once per run; the one file name
\* {base_name}_{YYYYMMDD_HHMMSS}.xlsx computed from that reading is the path
\* the renderer writes, the last component of every upload destination
\* {path}/{file name}, and the value returned.
C6_OneFileNameEverywhere ==
  /\ nowCalls <= 1
  /\ nowCalls = 0 => output_filename = "" /\ book.isNone /\ uploads = <<>> /\ result.isNone
  /\ nowCalls = 1 => \E r \in DOMAIN Clocks : r <= clock /\ output_filename = ExpectedNames[r]
  /\ ~book.isNone => book.val.path = output_filename
  /\ \A k \in DOMAIN uploads :
       /\ uploads[k].file_path = output_filename
       /\ uploads[k].blob = "reports/" \o output_filename
  /\ ~result.isNone => result.val = output_filename

\* the clock has moved on between rendering and uploading
C6_Witness ==
  /\ pc = "done"
  /\ clock = 2
  /\ output_filename = "report_20240102_030405.xlsx"
  /\ Len(uploads) = 1 /\ uploads[1].completed
  /\ result = Some(output_filename)

\* what a single step of the run may change, and when
PhaseRank(p) ==
  CASE p = "extract" -> 1 [] p = "transform" -> 2 [] p = "render" -> 3
    [] p = "publish" -> 4 [] OTHER -> 5

C7_Step ==
  /\ PhaseRank(pc') >= PhaseRank(pc)
  /\ (status' # status \/ raw' # raw) => (pc = "extract" /\ \A k \in DOMAIN prov : prov[k].spec = 0)
  /\ book' # book =>
       /\ pc = "render" /\ book.isNone
       /\ \A k \in DOMAIN prov : prov[k].spec # 0
       /\ \A k \in DOMAIN status : status[k] # "pending"
  /\ uploads' # uploads => (pc = "publish" /\ ~book.isNone /\ book' = book)
  /\ error' = "upload_to_gcs" => (~book'.isNone /\ book' = book)

\* C7: the run moves through extract, transform, render, publish in that
\* order and never back: no source is read once an entry has been
\* transformed, the spreadsheet is written only when every entry has been
\* transformed, upload_to_gcs is called only with the spreadsheet written,
\* and a written spreadsheet stays as it is, also when the upload fails.
C7_ForwardPhases == [][C7_Step]_vars

C7_Witness ==
  /\ pc = "raised"
  /\ error = "upload_to_gcs"
  /\ ~book.isNone
  /\ Len(all_data) >= 2
  /\ result.isNone

\* every listed column is there and holds parsed dates only
DatesParsed(df, cols) ==
  \A c \in Range(cols) :
    /\ \E k \in DOMAIN df : df[k].name = c
    /\ \A k \in DOMAIN df : df[k].name = c =>
         \A r \in DOMAIN df[k].cells :
           df[k].cells[r].kind = "datetime" /\ df[k].cells[r].v \in DateTexts

ListedDates(tr) == IF "date_columns" \in DOMAIN tr THEN tr.date_columns ELSE <<>>

\* C8: a listed date column with a cell that does not parse, or that is not
\* a column of the frame, makes transform_data raise and the run end with
\* that error: no spreadsheet is written or uploaded, and every frame that
\* was transformed, rendered or uploaded has each date column listed in the
\* applied transformations parsed, cell by cell.
C8_UnparsedDatesNeverRendered ==
  /\ \A k \in DOMAIN all_data :
       prov[k].spec > 0 =>
         DatesParsed(all_data[k].df, ListedDates(config.sources[prov[k].spec].transformations))
  /\ ~book.isNone =>
       \A k \in DOMAIN book.val.sheets :
         /\ prov[k].spec > 0
         /\ DatesParsed(book.val.sheets[k].df,
                        ListedDates(config.sources[prov[k].spec].transformations))
  /\ error = "transform_data" => (pc = "raised" /\ book.isNone /\ uploads = <<>> /\ result.isNone)

\* a second entry fails on an unparseable cell after a first was transformed
C8_Witness ==
  /\ error = "transform_data"
  /\ t = 2
  /\ \E r \in DOMAIN all_data[2].df[1].cells : all_data[2].df[1].cells[r] = Str("not a date")

\* C9: for a rename map none of whose old names is a produced new name,
\* transform_data applied again to its own result leaves the labels as the
\* first application made them: mapped labels replaced, all others kept, every
\* position kept; a map key that is no column changes nothing, and with no
\* date column listed nothing is raised.
C9_RenameOnceIsRenameTwice ==
  LET m == IF "rename_columns" \in DOMAIN tspec THEN tspec.rename_columns ELSE <<>>
      produced == {m[c] : c \in DOMAIN m \cap Range(Labels(tin))}
      once == [k \in DOMAIN tin |->
                 IF tin[k].name \in DOMAIN m THEN m[tin[k].name] ELSE tin[k].name]
  IN  DOMAIN m \cap produced = {} =>
        /\ tn >= 1 => (Labels(tdf) = once /\ ~traised)
        /\ ListedDates(tspec) = <<>> => ~traised

\* applied twice: x renamed, y kept in place, the key z matches no column
C9_Witness ==
  /\ tn = 2
  /\ Labels(tin) = <<"x", "y">>
  /\ Labels(tdf) = <<"w", "y">>
  /\ "rename_columns" \in DOMAIN tspec
  /\ DOMAIN tspec.rename_columns = {"x", "z"}

\* C10: every frame that reaches rendering is the frame read for one source,
\* transformed with the transformations of that same source, and every frame
\* that was read is still there: none was dropped or overwritten.
C10_OwnSpecAndNothingLost ==
  pc \in {"render", "publish", "done"} =>
    /\ \A k \in DOMAIN all_data :
         LET src == config.sources[prov[k].read]
         IN  /\ "transformations" \in DOMAIN src
             /\ TransformData(raw[prov[k].read].val, src.transformations).ok
             /\ all_data[k].df = TransformData(raw[prov[k].read].val, src.transformations).df
    /\ \A k \in DOMAIN status :
         status[k] = "ok" => \E e \in DOMAIN prov : prov[e].read = k

====
